---- MODULE Spec2Model ----
(***************************************************************************)
(* SimplyShop: the request handlers of shop/views.py over the tables of     *)
(* shop/models.py.  Every table is a sequence of rows; a row's id is its    *)
(* index (Django's auto-increment primary key, no row is ever deleted by    *)
(* the handlers modelled here).  Money is counted in whole rupees.          *)
(* Each action is one HTTP request served to completion.                    *)
(***************************************************************************)
EXTENDS Integers, Sequences, FiniteSets, TLC

(***************************************************************************)
(* Bounds of the model.                                                     *)
(***************************************************************************)
MaxOrders == 2
MaxReturns == 2
MaxPurchases == 1
MaxEdits == 1
MaxCredits == 2
MaxTime == 1
MaxCart == 2
CatalogOrders == 1
CatalogReturns == 1
ReturnOrders == 1
CartOrders == 1
MaxAudit == 2
ScanOrders == 1
GstOrders == 1
RaceRequests == 2

(***************************************************************************)
(* Text inputs of the forms and their parsing.                              *)
(***************************************************************************)
IntTable ==
    ("-1" :> -1) @@ ("0" :> 0) @@ ("1" :> 1) @@ ("2" :> 2) @@ ("3" :> 3)
    @@ ("4" :> 4) @@ ("5" :> 5) @@ ("6" :> 6) @@ ("2.00" :> 2) @@ ("3.00" :> 3)

\* int(text): python raises ValueError on anything but an integer literal
IsIntText(text) == text \in {"-1", "0", "1", "2", "3", "4", "5", "6"}

\* float(text) / Decimal(text): accepts the decimal literals as well
IsFloatText(text) == text \in DOMAIN IntTable

\* try: int(text) except ValueError: default
int_or(text, default) == IF IsIntText(text) THEN IntTable[text] ELSE default

\* try: float(text) except ValueError: default
float_or(text, default) == IF IsFloatText(text) THEN IntTable[text] ELSE default

\* str(v) of an integer, as stored in AuditLog.old_value / new_value
str(v) == ToString(v)

\* str(Decimal) of a DecimalField(decimal_places=2) value read from the database
str_decimal(v) == ToString(v) \o ".00"

Max(a, b) == IF a >= b THEN a ELSE b
Min(a, b) == IF a <= b THEN a ELSE b

RECURSIVE SumSeq(_)
SumSeq(s) == IF s = <<>> THEN 0 ELSE Head(s) + SumSeq(Tail(s))

\* the elements of a finite set of integers in ascending order (rows by id)
RECURSIVE SortedSeq(_)
SortedSeq(S) ==
    IF S = {} THEN <<>>
    ELSE LET m == CHOOSE x \in S : \A y \in S : x <= y
         IN <<m>> \o SortedSeq(S \ {m})

None == 0
NoDate == -1

VARIABLES
    products,       \* Product rows
    cart,           \* request.session["cart"]: product id -> quantity
    customers,      \* Customer rows
    orders,         \* Order rows
    order_items,    \* OrderItem rows
    payments,       \* OrderPayment rows
    order_returns,  \* OrderReturn rows
    return_items,   \* OrderReturnItem rows
    credits,        \* CreditEntry rows
    wholesalers,    \* Wholesaler rows
    purchases,      \* Purchase rows
    purchase_items, \* PurchaseItem rows
    audit,          \* AuditLog rows, oldest first
    now,            \* timezone.now()
    edits,          \* number of manage_products edits served
    messages,       \* the messages the last request emitted
    inflight        \* the checkout requests being served: worker -> its locals

db == <<products, customers, orders, order_items, payments, order_returns,
        return_items, credits, wholesalers, purchases, purchase_items, audit>>

vars == <<products, cart, customers, orders, order_items, payments,
          order_returns, return_items, credits, wholesalers, purchases,
          purchase_items, audit, now, edits, messages, inflight>>

Product(name, price, cost_price, discount_price, stock_quantity) ==
    [name |-> name, price |-> price, cost_price |-> cost_price,
     discount_price |-> discount_price, stock_quantity |-> stock_quantity,
     barcode |-> "", qr_payload |-> "", tax_rate_percent |-> 0,
     is_active |-> TRUE]

\* the worker processes that serve checkout requests side by side
Workers == 1..RaceRequests

\* a worker that serves no checkout request
Idle == [pc |-> "idle", cart |-> << >>, order |-> 0, products |-> << >>,
         todo |-> << >>]

\* the catalog the shop starts with
InitialProducts ==
    << Product("Apple", 3, 1, 1, 2), Product("Milk", 2, 1, 0, 1) >>

Init ==
    /\ products = InitialProducts
    /\ cart = << >>
    /\ customers = << >>
    /\ orders = << >>
    /\ order_items = << >>
    /\ payments = << >>
    /\ order_returns = << >>
    /\ return_items = << >>
    /\ credits = << >>
    /\ wholesalers = << >>
    /\ purchases = << >>
    /\ purchase_items = << >>
    /\ audit = << >>
    /\ now = 0
    /\ edits = 0
    /\ messages = {}
    /\ inflight = [w \in Workers |-> Idle]

\* AuditLog.objects.create(...)
_audit_log(action, model_name, object_id, field, old_value, new_value) ==
    [action |-> action, model |-> model_name, object_id |-> object_id,
     field |-> field, old_value |-> old_value, new_value |-> new_value]

\* time passes between requests
Tick ==
    /\ now < MaxTime
    /\ now' = now + 1
    /\ UNCHANGED <<db, cart, edits, messages, inflight>>

(***************************************************************************)
(* Cart session.                                                            *)
(***************************************************************************)
\* faulty variant: the session cart is rebuilt with the one line only
CartSet_only(c, key, quantity) == [k \in {key} |-> quantity]

CartSet(c, key, quantity) ==
    [k \in (DOMAIN c) \cup {key} |-> IF k = key THEN quantity ELSE c[k]]

CartDel(c, key) == [k \in (DOMAIN c) \ {key} |-> c[k]]

RECURSIVE CartTotal(_)
CartTotal(c) ==
    IF DOMAIN c = {} THEN 0
    ELSE LET k == CHOOSE k \in DOMAIN c : TRUE
         IN c[k] + CartTotal(CartDel(c, k))

\* the quantity add_to_cart adds: 1 on GET, the clamped parsed field on POST
add_qty(method, quantity_text) ==
    IF method = "POST" THEN Max(int_or(quantity_text, 1), 1) ELSE 1

add_to_cart(product_id, method, quantity_text) ==
    LET qty == add_qty(method, quantity_text)
        c == IF product_id \in DOMAIN cart
             THEN CartSet(cart, product_id, cart[product_id] + qty)
             ELSE CartSet(cart, product_id, qty)
    IN /\ CartTotal(c) <= MaxCart
       /\ cart' = c
       /\ messages' = IF method = "POST" THEN {} ELSE {"Item added to cart"}
       /\ UNCHANGED <<db, now, edits, inflight>>

\* POST only; int() of the field is not guarded: a non-integer raises (500)
update_cart(product_id, quantity_text) ==
    /\ IF ~IsIntText(quantity_text)
       THEN /\ messages' = {"ValueError"}
            /\ cart' = cart
       ELSE LET quantity == IntTable[quantity_text]
            IN IF quantity > 0
               THEN /\ CartTotal(CartSet(cart, product_id, quantity)) <= MaxCart
                    /\ cart' = CartSet(cart, product_id, quantity)
                    /\ messages' = {"Cart updated"}
               ELSE /\ cart' = CartDel(cart, product_id)
                    /\ messages' = IF product_id \in DOMAIN cart
                                   THEN {"Item removed from cart"} ELSE {}
    /\ UNCHANGED <<db, now, edits, inflight>>

remove_from_cart(product_id) ==
    /\ cart' = CartDel(cart, product_id)
    /\ messages' = IF product_id \in DOMAIN cart
                   THEN {"Item removed from cart"} ELSE {}
    /\ UNCHANGED <<db, now, edits, inflight>>

(***************************************************************************)
(* Scanning: product codes, scan to cart, scan to stock.                    *)
(***************************************************************************)
\* the admin change form of a Product, for the fields no view writes:
\* barcode (unique; a blank one is stored as NULL), QR payload, tax rate
ProductAdmin(product_id, barcode, qr_payload, tax_rate_percent) ==
    /\ product_id \in 1..Len(products)
    /\ IF /\ barcode # ""
          /\ \E other \in 1..Len(products) :
                other # product_id /\ products[other].barcode = barcode
       THEN /\ messages' = {"Product with this Barcode already exists."}
            /\ UNCHANGED products
       ELSE /\ products' = [products EXCEPT ![product_id] =
                   [@ EXCEPT !.barcode = barcode, !.qr_payload = qr_payload,
                             !.tax_rate_percent = tax_rate_percent]]
            /\ messages' = {"The product was changed successfully."}
    /\ UNCHANGED <<customers, orders, order_items, payments, order_returns,
                   return_items, credits, wholesalers, purchases,
                   purchase_items, audit, cart, now, edits, inflight>>

\* code.strip()
strip(code) == IF code = " 1" THEN "1" ELSE code

\* Product.objects.get(...) left uncaught: MultipleObjectsReturned
Raises == -1

\* the product a scanned code stands for: its id, None, or Raises
_find_product_by_code(code) ==
    LET c == strip(code)
        by_barcode == {p \in 1..Len(products) : products[p].barcode = c}
        by_qr == {p \in 1..Len(products) : products[p].qr_payload = c}
    IN IF c = "" THEN None
       ELSE IF by_barcode # {} THEN CHOOSE p \in by_barcode : TRUE
       ELSE IF Cardinality(by_qr) > 1 THEN Raises
       ELSE IF by_qr # {} THEN CHOOSE p \in by_qr : TRUE
       ELSE IF IsIntText(c)
       THEN (IF IntTable[c] \in 1..Len(products) THEN IntTable[c] ELSE None)
       ELSE None

\* faulty variant: the scanned quantity is taken as parsed
scan_qty_raw(qty_text) == int_or(IF qty_text = "" THEN "1" ELSE qty_text, 1)

\* the quantity or delta a scan adds: the parsed field, 1 if blank,
\* unparsable or below 1
scan_qty(qty_text) ==
    Max(int_or(IF qty_text = "" THEN "1" ELSE qty_text, 1), 1)

scan_add_to_cart(code, qty_text) ==
    LET product == _find_product_by_code(code)
        qty == scan_qty(qty_text)
        c == CartSet(cart, product,
                     (IF product \in DOMAIN cart THEN cart[product] ELSE 0)
                         + qty)
    IN
    /\ IF product = Raises
       THEN /\ messages' = {"MultipleObjectsReturned"}
            /\ UNCHANGED cart
       ELSE IF product = None \/ ~products[product].is_active
       THEN /\ messages' = {"Product not found for the scanned code."}
            /\ UNCHANGED cart
       ELSE /\ CartTotal(c) <= MaxCart
            /\ cart' = c
            /\ messages' = {"Added to cart"}
    /\ UNCHANGED <<db, now, edits, inflight>>

scan_stock_increment(code, delta_text) ==
    LET product == _find_product_by_code(code)
        delta == scan_qty(delta_text)
    IN
    /\ IF product = Raises
       THEN /\ messages' = {"MultipleObjectsReturned"}
            /\ UNCHANGED <<products, audit>>
       ELSE IF product = None
       THEN /\ messages' = {"Product not found for the scanned code."}
            /\ UNCHANGED <<products, audit>>
       ELSE /\ Len(audit) < MaxAudit
            /\ products' = [products EXCEPT ![product].stock_quantity =
                               @ + delta]
            /\ audit' = Append(audit,
                   _audit_log("stock_change", "Product", product,
                              "stock_quantity",
                              str(products[product].stock_quantity),
                              str(products[product].stock_quantity + delta)))
            /\ messages' = {"Stock updated"}
    /\ UNCHANGED <<customers, orders, order_items, payments, order_returns,
                   return_items, credits, wholesalers, purchases,
                   purchase_items, cart, now, edits, inflight>>

(***************************************************************************)
(* Order engine.                                                            *)
(***************************************************************************)
\* Product.objects.filter(id__in=cart.keys()), rows by id
cart_products == SortedSeq({p \in DOMAIN cart : p \in 1..Len(products)})

\* faulty variant: the deduction is not clamped at 0
checkout_stock_unclamped(stock_quantity, quantity) == stock_quantity - quantity

\* the stock checkout leaves for a product (views.py 639-643)
checkout_stock(stock_quantity, quantity) ==
    IF stock_quantity >= quantity THEN stock_quantity - quantity ELSE 0

\* the OrderItem checkout creates for one cart line
checkout_item(order_id, p) ==
    [order |-> order_id, product |-> p, quantity |-> cart[p],
     unit_price |-> products[p].price,
     discount_amount |-> products[p].discount_price]

\* faulty variant: the entry records the stock before the save as the new value
checkout_audit_stale(p) ==
    _audit_log("stock_change", "Product", p, "stock_quantity",
               str(products[p].stock_quantity),
               str(products[p].stock_quantity))

\* the audit entry checkout writes for one cart line
checkout_audit(p) ==
    _audit_log("stock_change", "Product", p, "stock_quantity",
               str(products[p].stock_quantity),
               str(checkout_stock(products[p].stock_quantity, cart[p])))

\* faulty variant: a customer on record is left as stored
checkout_customers_stale(name, phone, address) ==
    IF {i \in 1..Len(customers) : customers[i].name = name} = {}
    THEN Append(customers, [name |-> name, phone |-> phone,
                            address |-> address])
    ELSE customers

\* Customer.objects.get_or_create(name=name, defaults=...) and the update
checkout_customers(name, phone, address) ==
    LET found == {i \in 1..Len(customers) : customers[i].name = name}
    IN IF found = {}
       THEN Append(customers, [name |-> name, phone |-> phone,
                               address |-> address])
       ELSE LET i == CHOOSE i \in found : TRUE
            IN [customers EXCEPT
                  ![i].phone = IF phone # "" /\ @ # phone THEN phone ELSE @,
                  ![i].address = IF address # "" /\ @ # address
                                 THEN address ELSE @]

\* faulty variant: the total is only compared when a payment was entered
payment_warning_entered(a1, a2, total_amount) ==
    IF a1 + a2 # 0 /\ a1 + a2 # total_amount
    THEN {"Payment total does not match order total."}
    ELSE {}

\* the warning checkout raises on the payment amounts (views.py 676-677)
payment_warning(a1, a2, total_amount) ==
    IF a1 + a2 # total_amount
    THEN {"Payment total does not match order total."}
    ELSE {}

checkout(name, phone, address, method1, amount1, method2, amount2) ==
    LET ps == cart_products
        order_id == Len(orders) + 1
        total_amount ==
            SumSeq([i \in 1..Len(ps) |->
                (products[ps[i]].price - products[ps[i]].discount_price)
                    * cart[ps[i]]])
        a1 == float_or(IF amount1 = "" THEN "0" ELSE amount1, 0)
        a2 == float_or(IF amount2 = "" THEN "0" ELSE amount2, 0)
        pay1 == IF method1 # "" /\ a1 > 0
                THEN <<[order |-> order_id, method |-> method1,
                        amount |-> a1, reference |-> ""]>>
                ELSE << >>
        pay2 == IF method2 # "" /\ a2 > 0
                THEN <<[order |-> order_id, method |-> method2,
                        amount |-> a2, reference |-> ""]>>
                ELSE << >>
    IN
    /\ IF DOMAIN cart = {}
       THEN /\ messages' = {"Your cart is empty"}
            /\ UNCHANGED <<db, cart>>
       ELSE IF name # "" /\ phone # "" /\ address # ""
       THEN IF Cardinality({i \in 1..Len(customers) :
                                customers[i].name = name}) > 1
            THEN \* get_or_create raises MultipleObjectsReturned
                 /\ messages' = {"MultipleObjectsReturned"}
                 /\ UNCHANGED <<db, cart>>
            ELSE
            /\ Len(orders) < MaxOrders
            /\ customers' = checkout_customers(name, phone, address)
            /\ orders' = Append(orders,
                   [customer_name |-> name, customer_phone |-> phone,
                    customer_address |-> address, created_at |-> now,
                    status |-> "pending"])
            /\ order_items' = order_items \o
                   [i \in 1..Len(ps) |-> checkout_item(order_id, ps[i])]
            /\ products' =
                   [p \in 1..Len(products) |->
                       IF p \in DOMAIN cart
                       THEN [products[p] EXCEPT !.stock_quantity =
                                checkout_stock(@, cart[p])]
                       ELSE products[p]]
            /\ audit' = audit \o [i \in 1..Len(ps) |-> checkout_audit(ps[i])]
            /\ payments' = payments \o pay1 \o pay2
            /\ cart' = << >>
            /\ messages' = {"Order placed successfully!"}
                               \cup payment_warning(a1, a2, total_amount)
            /\ UNCHANGED <<order_returns, return_items, credits, wholesalers,
                           purchases, purchase_items>>
       ELSE \* a field is missing: the checkout page is rendered again
            /\ messages' = {}
            /\ UNCHANGED <<db, cart>>
    /\ UNCHANGED <<now, edits, inflight>>

\* faulty variant: the button toggles, re-marking reopens the order
completed_status_toggle(status) ==
    IF status # "completed" THEN "completed" ELSE "pending"

\* the status mark_order_completed leaves (views.py 705-710)
completed_status(status) ==
    IF status # "completed" THEN "completed" ELSE status

mark_order_completed(order_id) ==
    /\ order_id \in 1..Len(orders)
    /\ orders' = [orders EXCEPT ![order_id].status = completed_status(@)]
    /\ messages' = IF orders[order_id].status # "completed"
                   THEN {"Order marked as completed."}
                   ELSE {"Order is already completed."}
    /\ UNCHANGED <<products, customers, order_items, payments, order_returns,
                   return_items, credits, wholesalers, purchases,
                   purchase_items, audit, cart, now, edits, inflight>>

(***************************************************************************)
(* checkout served by several workers at once: the same handler, one step   *)
(* per database statement of its loop (views.py 629-654). No transaction    *)
(* and no row lock spans the statements.                                    *)
(***************************************************************************)
\* faulty variant: the save deducts from the stock the row holds at the save
saved_stock_stored(read_stock, stored_stock, quantity) ==
    checkout_stock(stored_stock, quantity)

\* the stock product.save(update_fields=["stock_quantity"]) writes: the value
\* computed on the instance the queryset read (views.py 638-644)
saved_stock(read_stock, stored_stock, quantity) ==
    checkout_stock(read_stock, quantity)

\* the product the loop of worker w is at
current(w) == Head(inflight[w].todo)

\* an accepted checkout of a session whose cart is session_cart, up to
\* Order.objects.create (views.py 590-627)
checkout_create_order(w, session_cart, name, phone, address) ==
    /\ inflight[w].pc = "idle"
    /\ DOMAIN session_cart # {}
    /\ name # "" /\ phone # "" /\ address # ""
    /\ Cardinality({i \in 1..Len(customers) : customers[i].name = name}) <= 1
    /\ Len(orders) < MaxOrders
    /\ customers' = checkout_customers(name, phone, address)
    /\ orders' = Append(orders,
           [customer_name |-> name, customer_phone |-> phone,
            customer_address |-> address, created_at |-> now,
            status |-> "pending"])
    /\ inflight' = [inflight EXCEPT ![w] =
           [pc |-> "select", cart |-> session_cart, order |-> Len(orders) + 1,
            products |-> << >>, todo |-> << >>]]
    /\ UNCHANGED <<products, order_items, payments, order_returns,
                   return_items, credits, wholesalers, purchases,
                   purchase_items, audit, cart, now, edits, messages>>

\* for product in products: the queryset of line 629 is evaluated, every
\* Product instance of the loop is read here
checkout_select(w) ==
    /\ inflight[w].pc = "select"
    /\ inflight' = [inflight EXCEPT ![w] =
           [@ EXCEPT !.products = products,
                     !.todo = SortedSeq({p \in DOMAIN inflight[w].cart :
                                            p \in 1..Len(products)}),
                     !.pc = IF \E p \in DOMAIN inflight[w].cart :
                                   p \in 1..Len(products)
                            THEN "item" ELSE "pay"]]
    /\ UNCHANGED <<db, cart, now, edits, messages>>

\* OrderItem.objects.create(...) (views.py 632-638)
checkout_create_item(w) ==
    /\ inflight[w].pc = "item"
    /\ order_items' = Append(order_items,
           [order |-> inflight[w].order, product |-> current(w),
            quantity |-> inflight[w].cart[current(w)],
            unit_price |-> inflight[w].products[current(w)].price,
            discount_amount |->
                inflight[w].products[current(w)].discount_price])
    /\ inflight' = [inflight EXCEPT ![w].pc = "save"]
    /\ UNCHANGED <<products, customers, orders, payments, order_returns,
                   return_items, credits, wholesalers, purchases,
                   purchase_items, audit, cart, now, edits, messages>>

\* product.save(update_fields=["stock_quantity"]) (views.py 639-644)
checkout_save(w) ==
    /\ inflight[w].pc = "save"
    /\ products' = [products EXCEPT ![current(w)].stock_quantity =
           saved_stock(inflight[w].products[current(w)].stock_quantity, @,
                       inflight[w].cart[current(w)])]
    /\ inflight' = [inflight EXCEPT ![w].pc = "log"]
    /\ UNCHANGED <<customers, orders, order_items, payments, order_returns,
                   return_items, credits, wholesalers, purchases,
                   purchase_items, audit, cart, now, edits, messages>>

\* _audit_log(..., old_stock, product.stock_quantity) (views.py 646-654), and
\* on to the next product
checkout_log(w) ==
    /\ inflight[w].pc = "log"
    /\ audit' = Append(audit,
           _audit_log("stock_change", "Product", current(w), "stock_quantity",
               str(inflight[w].products[current(w)].stock_quantity),
               str(checkout_stock(
                       inflight[w].products[current(w)].stock_quantity,
                       inflight[w].cart[current(w)]))))
    /\ inflight' = [inflight EXCEPT ![w] =
           [@ EXCEPT !.todo = Tail(@),
                     !.pc = IF Tail(inflight[w].todo) = << >>
                            THEN "pay" ELSE "item"]]
    /\ UNCHANGED <<products, customers, orders, order_items, payments,
                   order_returns, return_items, credits, wholesalers,
                   purchases, purchase_items, cart, now, edits, messages>>

\* the payments, the warning and the redirect (views.py 656-681); the
\* session's cart is emptied, the request's own cart dict is kept
checkout_pay(w, method1, amount1) ==
    LET ps == SortedSeq({p \in DOMAIN inflight[w].cart :
                            p \in 1..Len(inflight[w].products)})
        total_amount ==
            SumSeq([i \in 1..Len(ps) |->
                (inflight[w].products[ps[i]].price
                     - inflight[w].products[ps[i]].discount_price)
                    * inflight[w].cart[ps[i]]])
        a1 == float_or(IF amount1 = "" THEN "0" ELSE amount1, 0)
    IN
    /\ inflight[w].pc = "pay"
    /\ payments' = payments \o
           (IF method1 # "" /\ a1 > 0
            THEN <<[order |-> inflight[w].order, method |-> method1,
                    amount |-> a1, reference |-> ""]>>
            ELSE << >>)
    /\ messages' = {"Order placed successfully!"}
                       \cup payment_warning(a1, 0, total_amount)
    /\ inflight' = [inflight EXCEPT ![w].pc = "done"]
    /\ UNCHANGED <<products, customers, orders, order_items, order_returns,
                   return_items, credits, wholesalers, purchases,
                   purchase_items, audit, cart, now, edits>>

(***************************************************************************)
(* Return engine.                                                           *)
(***************************************************************************)
\* order.items, rows by id
items_of(order_id) ==
    SortedSeq({i \in 1..Len(order_items) : order_items[i].order = order_id})

\* faulty variant: the requested quantity is not clamped to the ordered quantity
return_qty_unclamped(quantity, qty_str) ==
    LET rqty == int_or(qty_str, 0)
    IN IF rqty > 0 THEN rqty ELSE 0

\* the quantity return_order takes back for one line (views.py 1107-1114):
\* 0 stands for "no OrderReturnItem"
return_qty(quantity, qty_str) ==
    LET rqty == int_or(qty_str, 0)
    IN IF rqty > 0
       THEN (IF rqty > quantity THEN quantity ELSE rqty)
       ELSE 0

\* faulty variant: a returned line puts a single unit back
return_stock_unit(stock_quantity, rqty) == stock_quantity + 1

\* the stock return_order saves for a product (views.py 1122)
return_stock(stock_quantity, rqty) == stock_quantity + rqty

\* faulty variant: a completed order keeps its status when sent back
returned_status_kept(status) ==
    IF status = "completed" THEN status ELSE "returned"

\* the status return_order leaves (views.py 1131)
returned_status(status) == "returned"

\* faulty variant: an order that was already returned is turned away
returnable_once(order_id) ==
    /\ order_id \in 1..Len(orders)
    /\ orders[order_id].status # "returned"

\* get_object_or_404(Order, id=order_id): the only test return_order makes
returnable(order_id) == order_id \in 1..Len(orders)

\* faulty variant: the line is refunded at its discounted price
return_item_discounted(oreturn, item, rqty) ==
    [order_return |-> oreturn, product |-> item.product, quantity |-> rqty,
     unit_price |-> item.unit_price - item.discount_amount]

\* the OrderReturnItem return_order creates for one line (views.py 1115-1120)
return_item(oreturn, item, rqty) ==
    [order_return |-> oreturn, product |-> item.product, quantity |-> rqty,
     unit_price |-> item.unit_price]

\* faulty variant: the refund is booked like a payment received
refund_payments_positive(order_id, refund_method, total_refund) ==
    IF refund_method # "" /\ total_refund > 0
    THEN <<[order |-> order_id, method |-> refund_method,
            amount |-> total_refund, reference |-> "REFUND"]>>
    ELSE << >>

\* the OrderPayment rows return_order adds (views.py 1126-1129)
refund_payments(order_id, refund_method, total_refund) ==
    IF refund_method # "" /\ total_refund > 0
    THEN <<[order |-> order_id, method |-> refund_method,
            amount |-> -total_refund, reference |-> "REFUND"]>>
    ELSE << >>

\* faulty variant: the line is refunded at what the customer was charged
refund_line_subtotal(item, rqty) ==
    (item.unit_price - item.discount_amount) * rqty

\* what one returned line adds to total_refund (views.py 1124)
refund_line(item, rqty) == item.unit_price * rqty

return_order(order_id, refund_method, qty) ==
    LET its == items_of(order_id)
        rq(i) == return_qty(order_items[i].quantity, qty[i])
        taken == SortedSeq({i \in DOMAIN qty : rq(i) > 0})
        oreturn == Len(order_returns) + 1
        total_refund ==
            SumSeq([k \in 1..Len(taken) |->
                refund_line(order_items[taken[k]], rq(taken[k]))])
        \* every item carries its own Product instance, read before the loop
        saved(p) == {i \in DOMAIN qty : rq(i) > 0 /\ order_items[i].product = p}
        last(p) == CHOOSE i \in saved(p) : \A j \in saved(p) : j <= i
    IN
    /\ returnable(order_id)
    /\ DOMAIN qty = {its[k] : k \in 1..Len(its)}
    /\ Len(order_returns) < MaxReturns
    /\ order_returns' = Append(order_returns,
           [order |-> order_id, refund_method |-> refund_method,
            created_at |-> now])
    /\ return_items' = return_items \o
           [k \in 1..Len(taken) |->
               return_item(oreturn, order_items[taken[k]], rq(taken[k]))]
    /\ products' =
           [p \in 1..Len(products) |->
               IF saved(p) # {}
               THEN [products[p] EXCEPT !.stock_quantity =
                        return_stock(@, rq(last(p)))]
               ELSE products[p]]
    /\ payments' = payments
           \o refund_payments(order_id, refund_method, total_refund)
    /\ orders' = [orders EXCEPT ![order_id].status = returned_status(@)]
    /\ messages' = {"Return processed successfully."}
    /\ UNCHANGED <<customers, order_items, credits, wholesalers, purchases,
                   purchase_items, audit, cart, now, edits, inflight>>

(***************************************************************************)
(* Purchasing.                                                              *)
(***************************************************************************)
\* faulty variant: the cost price is averaged with the prior one
purchased_product_averaged(product, quantity, unit_cost, selling_price) ==
    [product EXCEPT !.stock_quantity = @ + quantity,
                    !.cost_price = (@ + unit_cost) \div 2,
                    !.price = selling_price]

\* the Product row after a recorded purchase (views.py 1073-1075)
purchased_product(product, quantity, unit_cost, selling_price) ==
    [product EXCEPT !.stock_quantity = @ + quantity,
                    !.cost_price = unit_cost,
                    !.price = selling_price]

\* wholesaler_id and product_id: 0 stands for an absent field
wholesaler_dashboard(wholesaler_id, wholesaler_name, product_id, new_product_name, quantity_text, unit_cost_text, selling_price_text) ==
    LET by_id == IF wholesaler_id \in 1..Len(wholesalers)
                 THEN wholesaler_id ELSE None
        named == {i \in 1..Len(wholesalers) :
                     wholesalers[i].name = wholesaler_name}
        \* Wholesaler.objects.get_or_create(name=wholesaler_name, ...)
        created == by_id = None /\ wholesaler_name # "" /\ named = {}
        ws == IF created
              THEN Append(wholesalers, [name |-> wholesaler_name])
              ELSE wholesalers
        wholesaler ==
            IF by_id # None THEN by_id
            ELSE IF wholesaler_name = "" THEN None
            ELSE IF named = {} THEN Len(wholesalers) + 1
            ELSE CHOOSE i \in named : TRUE
        quantity == Max(int_or(quantity_text, 1), 1)
        unit_cost == float_or(unit_cost_text, 0)
        selling_price == float_or(selling_price_text, 0)
        found == IF product_id \in 1..Len(products) THEN product_id ELSE None
        product == IF found # None THEN found
                   ELSE IF new_product_name # "" THEN Len(products) + 1
                   ELSE None
        ps == IF found = None /\ new_product_name # ""
              THEN Append(products,
                       Product(new_product_name, selling_price, unit_cost,
                               0, 0))
              ELSE products
    IN
    /\ IF wholesaler = None
       THEN /\ messages' = {"Wholesaler is required."}
            /\ UNCHANGED db
       ELSE IF unit_cost <= 0
       THEN /\ messages' = {"Unit cost must be greater than zero."}
            /\ wholesalers' = ws
            /\ UNCHANGED <<products, customers, orders, order_items, payments,
                           order_returns, return_items, credits, purchases,
                           purchase_items, audit>>
       ELSE IF selling_price <= 0
       THEN /\ messages' = {"Selling price must be greater than zero."}
            /\ wholesalers' = ws
            /\ UNCHANGED <<products, customers, orders, order_items, payments,
                           order_returns, return_items, credits, purchases,
                           purchase_items, audit>>
       ELSE IF product = None
       THEN /\ messages' = {"Product is required."}
            /\ wholesalers' = ws
            /\ UNCHANGED <<products, customers, orders, order_items, payments,
                           order_returns, return_items, credits, purchases,
                           purchase_items, audit>>
       ELSE /\ Len(purchases) < MaxPurchases
            /\ messages' = {"Purchase recorded and stock updated."}
            /\ wholesalers' = ws
            /\ purchases' = Append(purchases,
                   [wholesaler |-> wholesaler, date |-> now])
            /\ purchase_items' = Append(purchase_items,
                   [purchase |-> Len(purchases) + 1, product |-> product,
                    quantity |-> quantity, unit_cost |-> unit_cost])
            /\ products' = [ps EXCEPT ![product] =
                   purchased_product(@, quantity, unit_cost, selling_price)]
            /\ UNCHANGED <<customers, orders, order_items, payments,
                           order_returns, return_items, credits, audit>>
    /\ UNCHANGED <<cart, now, edits, inflight>>

(***************************************************************************)
(* Catalog: the edit form of manage_products (product_id given).            *)
(***************************************************************************)
manage_products(product_id, name, price, cost_price, discount_price, stock_quantity, is_active) ==
    LET old == products[product_id]
        price_log ==
            IF str_decimal(old.price) # price
            THEN <<_audit_log("price_change", "Product", product_id, "price",
                              str_decimal(old.price), price)>>
            ELSE << >>
        stock_log ==
            IF old.stock_quantity # IntTable[stock_quantity]
            THEN <<_audit_log("stock_change", "Product", product_id,
                              "stock_quantity", str(old.stock_quantity),
                              stock_quantity)>>
            ELSE << >>
    IN
    /\ product_id \in 1..Len(products)
    /\ edits < MaxEdits
    /\ edits' = edits + 1
    /\ IF name = ""
       THEN /\ messages' = {"Product name is required."}
            /\ UNCHANGED db
       ELSE IF ~(IsFloatText(price) /\ IsFloatText(cost_price)
                 /\ IsFloatText(discount_price) /\ IsIntText(stock_quantity))
       THEN \* Decimal / int conversion fails in save()
            /\ messages' = {"ValidationError"}
            /\ UNCHANGED db
       ELSE IF IntTable[stock_quantity] < 0
       THEN \* PositiveIntegerField: the CHECK constraint rejects the row
            /\ messages' = {"IntegrityError"}
            /\ UNCHANGED db
       ELSE /\ products' = [products EXCEPT ![product_id] =
                   [@ EXCEPT !.name = name, !.price = IntTable[price],
                             !.cost_price = IntTable[cost_price],
                             !.discount_price = IntTable[discount_price],
                             !.stock_quantity = IntTable[stock_quantity],
                             !.is_active = is_active]]
            /\ audit' = audit \o price_log \o stock_log
            /\ messages' = {"Product updated successfully."}
            /\ UNCHANGED <<customers, orders, order_items, payments,
                           order_returns, return_items, credits, wholesalers,
                           purchases, purchase_items>>
    /\ UNCHANGED <<cart, now, inflight>>

(***************************************************************************)
(* Credit ledger.                                                           *)
(***************************************************************************)
\* faulty variant: the derived amount is the unit price, the quantity is forgotten
credit_amount_unit(amount_text, has_product, price, quantity) ==
    LET amount_value == float_or(amount_text, 0)
    IN IF amount_value <= 0 /\ has_product
       THEN price
       ELSE amount_value

\* the amount add_credit stores (views.py 1250-1256)
credit_amount(amount_text, has_product, price, quantity) ==
    LET amount_value == float_or(amount_text, 0)
    IN IF amount_value <= 0 /\ has_product
       THEN price * quantity
       ELSE amount_value

\* customer_id and product_id: 0 stands for an absent field
add_credit(customer_id, customer_name, customer_phone, item_name, product_id, quantity_text, amount_text) ==
    LET by_id == IF customer_id \in 1..Len(customers)
                 THEN customer_id ELSE None
        matching == {i \in 1..Len(customers) :
                        /\ customers[i].name = customer_name
                        /\ customers[i].phone = customer_phone}
        \* Customer.objects.get_or_create(name=..., phone=...)
        cs == IF by_id = None /\ matching = {}
              THEN Append(customers, [name |-> customer_name,
                                      phone |-> customer_phone,
                                      address |-> ""])
              ELSE customers
        customer == IF by_id # None THEN by_id
                    ELSE IF matching = {} THEN Len(customers) + 1
                    ELSE CHOOSE i \in matching : TRUE
        product == IF product_id \in 1..Len(products)
                   THEN product_id ELSE None
        item == IF item_name = "" /\ product # None
                THEN products[product].name ELSE item_name
        quantity == IntTable[quantity_text]
    IN
    /\ IF ~IsIntText(quantity_text)
       THEN \* int() of the quantity field is not guarded
            /\ messages' = {"ValueError"}
            /\ UNCHANGED db
       ELSE IF by_id = None /\ customer_name = ""
       THEN /\ messages' = {"Customer is required."}
            /\ UNCHANGED db
       ELSE IF item = ""
       THEN /\ messages' = {"Item name is required."}
            /\ customers' = cs
            /\ UNCHANGED <<products, orders, order_items, payments,
                           order_returns, return_items, credits, wholesalers,
                           purchases, purchase_items, audit>>
       ELSE IF quantity < 0
       THEN \* PositiveIntegerField: the CHECK constraint rejects the row
            /\ messages' = {"IntegrityError"}
            /\ customers' = cs
            /\ UNCHANGED <<products, orders, order_items, payments,
                           order_returns, return_items, credits, wholesalers,
                           purchases, purchase_items, audit>>
       ELSE /\ Len(credits) < MaxCredits
            /\ customers' = cs
            /\ credits' = Append(credits,
                   [customer |-> customer, product |-> product,
                    item_name |-> item, quantity |-> quantity,
                    amount |-> credit_amount(amount_text, product # None,
                                  IF product # None
                                  THEN products[product].price ELSE 0,
                                  quantity),
                    date_taken |-> now, is_paid |-> FALSE,
                    date_paid |-> NoDate])
            /\ messages' = {"Udhari entry added successfully."}
            /\ UNCHANGED <<products, orders, order_items, payments,
                           order_returns, return_items, wholesalers,
                           purchases, purchase_items, audit>>
    /\ UNCHANGED <<cart, now, edits, inflight>>

\* faulty variant: the payment date is stamped again on every call
paid_credit_restamped(credit, today) ==
    [credit EXCEPT !.is_paid = TRUE, !.date_paid = today]

\* the CreditEntry row mark_credit_paid saves (views.py 1285-1288)
\* faulty variant: the entry is flagged paid but the payment date is not stamped
paid_credit_undated(credit, today) ==
    [credit EXCEPT !.is_paid = TRUE]

paid_credit(credit, today) ==
    IF ~credit.is_paid
    THEN [credit EXCEPT !.is_paid = TRUE, !.date_paid = today]
    ELSE credit

mark_credit_paid(credit_id) ==
    /\ credit_id \in 1..Len(credits)
    /\ credits' = [credits EXCEPT ![credit_id] = paid_credit(@, now)]
    /\ audit' = IF ~credits[credit_id].is_paid
                THEN Append(audit,
                         _audit_log("credit_paid", "CreditEntry", credit_id,
                                    "is_paid", "False", "True"))
                ELSE audit
    /\ messages' = IF ~credits[credit_id].is_paid
                   THEN {"Marked as paid."}
                   ELSE {"This entry is already marked as paid."}
    /\ UNCHANGED <<products, customers, orders, order_items, payments,
                   order_returns, return_items, wholesalers, purchases,
                   purchase_items, cart, now, edits, inflight>>

(***************************************************************************)
(* Reporting.                                                               *)
(***************************************************************************)
\* faulty variant: the line is priced from the catalog, not from its snapshot
subtotal_live(item) ==
    (products[item.product].price - products[item.product].discount_price)
        * item.quantity

\* OrderItem.subtotal
subtotal(item) == (item.unit_price - item.discount_amount) * item.quantity

\* Order.total_amount
total_amount(order_id) ==
    SumSeq([k \in 1..Len(items_of(order_id)) |->
               subtotal(order_items[items_of(order_id)[k]])])

\* Sum(expr) over the rows of a queryset: expr maps a row id to its value
Aggregate(rows, expr) ==
    SumSeq([k \in 1..Len(SortedSeq(rows)) |-> expr[SortedSeq(rows)[k]]])

\* sales_stats(start, end) of sales_dashboard, without the Expense ledger
sales_stats(start, end) ==
    LET price_expr ==
            [i \in 1..Len(order_items) |->
                order_items[i].unit_price * order_items[i].quantity]
        profit_expr ==
            [i \in 1..Len(order_items) |->
                (order_items[i].unit_price
                     - products[order_items[i].product].cost_price)
                    * order_items[i].quantity]
        items == {i \in 1..Len(order_items) :
                     /\ orders[order_items[i].order].status
                            \in {"completed", "returned"}
                     /\ orders[order_items[i].order].created_at >= start
                     /\ orders[order_items[i].order].created_at < end}
        return_price_expr ==
            [i \in 1..Len(return_items) |->
                return_items[i].unit_price * return_items[i].quantity]
        return_profit_expr ==
            [i \in 1..Len(return_items) |->
                (return_items[i].unit_price
                     - products[return_items[i].product].cost_price)
                    * return_items[i].quantity]
        ritems == {i \in 1..Len(return_items) :
                      /\ order_returns[return_items[i].order_return].created_at
                             >= start
                      /\ order_returns[return_items[i].order_return].created_at
                             < end}
        purchase_expr ==
            [i \in 1..Len(purchase_items) |->
                purchase_items[i].unit_cost * purchase_items[i].quantity]
        pitems == {i \in 1..Len(purchase_items) :
                      /\ purchases[purchase_items[i].purchase].date >= start
                      /\ purchases[purchase_items[i].purchase].date < end}
    IN [revenue |-> Aggregate(items, price_expr)
                        - Aggregate(ritems, return_price_expr),
        profit |-> Aggregate(items, profit_expr)
                       - Aggregate(ritems, return_profit_expr),
        spent |-> Aggregate(pitems, purchase_expr)]

\* faulty variant: the items of returned orders are exported as well
gst_items_returned(start, end) ==
    {i \in 1..Len(order_items) :
        /\ orders[order_items[i].order].status \in {"completed", "returned"}
        /\ orders[order_items[i].order].created_at >= start
        /\ orders[order_items[i].order].created_at < end}

\* the OrderItem rows the GST export reads (views.py 728)
gst_items(start, end) ==
    {i \in 1..Len(order_items) :
        /\ orders[order_items[i].order].status = "completed"
        /\ orders[order_items[i].order].created_at >= start
        /\ orders[order_items[i].order].created_at < end}

\* the rows of the GST export of the month that starts at start, one per
\* value of (product__name, product__tax_rate_percent); Taxable Value and
\* GST Amount are in hundredths, the two decimals the CSV shows
gst_export(start) ==
    LET end == start + 1
        items == gst_items(start, end)
        price_expr ==
            [i \in 1..Len(order_items) |->
                order_items[i].unit_price * order_items[i].quantity * 100]
        tax_expr ==
            [i \in 1..Len(order_items) |->
                (order_items[i].unit_price * order_items[i].quantity * 100
                    * products[order_items[i].product].tax_rate_percent)
                \div 100]
        values(i) == <<products[order_items[i].product].name,
                       products[order_items[i].product].tax_rate_percent>>
    IN {[product__name |-> v[1], product__tax_rate_percent |-> v[2],
         revenue |-> Aggregate({i \in items : values(i) = v}, price_expr),
         tax |-> Aggregate({i \in items : values(i) = v}, tax_expr)] :
           v \in {values(i) : i \in items}}

(***************************************************************************)
(* Specifications.                                                          *)
(***************************************************************************)
Contacts == {<<"Asha", "98450">>, <<"", "98450">>}
ReturnTexts == {"x", "1", "3"}
RefundMethods == {"cash", ""}
Edits == {<<"2", "0", "0">>, <<"3.00", "1", "1">>}

\* the per-line quantity fields a return form of an order can carry
ReturnForms(o) ==
    [{i \in 1..Len(order_items) : order_items[i].order = o} -> ReturnTexts]

\* Spec: the order pipeline (cart, checkout, completion, returns).
Next ==
    \/ \E p \in 1..Len(products) : add_to_cart(p, "GET", "")
    \/ \E c \in Contacts :
          checkout(c[1], c[2], "MG Road", "cash", "4", "", "")
    \/ \E o \in 1..Len(orders) : mark_order_completed(o)
    \/ \E o \in 1..Len(orders) : \E qty \in ReturnForms(o) :
          return_order(o, "cash", qty)

Spec == Init /\ [][Next]_vars

CartIds == 1..(Len(InitialProducts) + 1)
CartQuantities == {"x", "2"}
UpdateQuantities == {"x", "0", "1"}
Phones == {"", "98450", "70000"}
Addresses == {"", "MG Road"}
PayAmounts == {"", "x", "2", "4"}
PayMethods == {"", "upi"}
LedgerPhones == {"", "98450"}

\* SpecCart: the session cart (also with an id no product has) and the
\* checkout form in full, for a customer the credit ledger may know already
NextCart ==
    \/ \E p \in CartIds : add_to_cart(p, "GET", "")
    \/ \E p \in CartIds, q \in CartQuantities : add_to_cart(p, "POST", q)
    \/ \E p \in CartIds, q \in UpdateQuantities : update_cart(p, q)
    \/ \E p \in CartIds : remove_from_cart(p)
    \/ /\ Len(orders) < CartOrders
       /\ \E phone \in Phones, address \in Addresses, a1 \in PayAmounts,
             m2 \in PayMethods, a2 \in {"", "2"} :
             checkout("Asha", phone, address, "cash", a1, m2, a2)
    \/ \E phone \in LedgerPhones :
          add_credit(0, "Asha", phone, "Sugar", 0, "3", "5")

SpecCart == Init /\ [][NextCart]_vars

ScanCodes == {"", "x", " 1", "2", "5", "QR"}
ScanQuantities == {"", "x", "0", "2"}
Barcodes == {"", "1"}
QrPayloads == {"", "QR"}

\* SpecScan: the scanner at the counter: codes set in the admin, scans into
\* the cart and into the stock, the cart edited by hand, an order placed
NextScan ==
    \/ \E p \in 1..Len(products), b \in Barcodes, q \in QrPayloads :
          ProductAdmin(p, b, q, products[p].tax_rate_percent)
    \/ \E code \in ScanCodes, q \in ScanQuantities : scan_add_to_cart(code, q)
    \/ \E code \in ScanCodes, d \in ScanQuantities :
          scan_stock_increment(code, d)
    \/ \E p \in 1..Len(products), q \in ScanQuantities \ {""} :
          add_to_cart(p, "POST", q)
    \/ \E p \in 1..Len(products), q \in ScanQuantities \ {"", "x"} :
          update_cart(p, q)
    \/ \E p \in 1..Len(products) : remove_from_cart(p)
    \/ /\ Len(orders) < ScanOrders
       /\ \E phone \in {"", "98450"} :
             checkout("Asha", phone, "MG Road", "cash", "4", "", "")

SpecScan == Init /\ [][NextScan]_vars

\* SpecReturn: one order sent back again and again, refunded or not
NextReturn ==
    \/ \E p \in 1..Len(products) : add_to_cart(p, "GET", "")
    \/ /\ Len(orders) < ReturnOrders
       /\ checkout("Asha", "98450", "MG Road", "cash", "4", "", "")
    \/ \E o \in 1..Len(orders) : mark_order_completed(o)
    \/ \E o \in 1..Len(orders), m \in RefundMethods :
          \E qty \in ReturnForms(o) : return_order(o, m, qty)

SpecReturn == Init /\ [][NextReturn]_vars

ProductNames == {"Apple", "Milk"}
TaxRates == {0, 5}

\* SpecGst: one order's life in a catalog whose names and tax rates are
\* edited, with time passing from one month to the next
NextGst ==
    \/ Tick
    \/ \E p \in 1..Len(products), rate \in TaxRates :
          ProductAdmin(p, products[p].barcode, products[p].qr_payload, rate)
    \/ \E p \in 1..Len(products), name \in ProductNames :
          manage_products(p, name, str_decimal(products[p].price), "1",
                          str(products[p].discount_price),
                          str(products[p].stock_quantity), TRUE)
    \/ \E p \in 1..Len(products) : add_to_cart(p, "GET", "")
    \/ /\ Len(orders) < GstOrders
       /\ checkout("Asha", "98450", "MG Road", "cash", "4", "", "")
    \/ \E o \in 1..Len(orders) : mark_order_completed(o)
    \/ \E o \in 1..Len(orders) :
          \E qty \in ReturnForms(o) : return_order(o, "cash", qty)

SpecGst == Init /\ [][NextGst]_vars

\* the carts of the sessions that check out at the same time
RaceCarts == {(1 :> 1), (1 :> 2), (1 :> 1) @@ (2 :> 1)}

\* SpecRace: stock is bought in, then the sessions check out side by side
NextRace ==
    \/ /\ \A w \in Workers : inflight[w].pc = "idle"
       /\ \E p \in 1..Len(products) :
             wholesaler_dashboard(0, "Metro", p, "", "2", "2", "4")
    \/ \E w \in Workers, c \in RaceCarts :
          checkout_create_order(w, c, "Asha", "98450", "MG Road")
    \/ \E w \in Workers : checkout_select(w)
    \/ \E w \in Workers : checkout_create_item(w)
    \/ \E w \in Workers : checkout_save(w)
    \/ \E w \in Workers : checkout_log(w)
    \/ \E w \in Workers : checkout_pay(w, "cash", "4")

SpecRace == Init /\ [][NextRace]_vars

PurchaseCosts == {"0", "2"}

\* SpecCatalog: one order's life while the catalog changes under it
\* (purchases recorded, products edited), with time passing.
NextCatalog ==
    \/ Tick
    \/ \E p \in 1..Len(products) : add_to_cart(p, "GET", "")
    \/ /\ Len(orders) < CatalogOrders
       /\ checkout("Asha", "98450", "MG Road", "cash", "4", "", "")
    \/ \E o \in 1..Len(orders) : mark_order_completed(o)
    \/ /\ Len(order_returns) < CatalogReturns
       /\ \E o \in 1..Len(orders) : \E qty \in ReturnForms(o) :
             return_order(o, "cash", qty)
    \/ \E p \in 1..Len(products), c \in PurchaseCosts :
          wholesaler_dashboard(0, "Metro", p, "", "2", c, "4")
    \/ \E p \in 1..Len(products), e \in Edits :
          manage_products(p, products[p].name, e[1], "1", e[2], e[3], TRUE)

SpecCatalog == Init /\ [][NextCatalog]_vars

CreditCustomers == {<<0, "">>, <<0, "Asha">>, <<1, "">>}
CreditItems == {"", "Sugar"}
CreditProducts == 0..1
CreditQuantities == {"x", "3"}
CreditAmounts == {"x", "-1", "0", "5"}

\* SpecCredit: the credit ledger, with catalog price edits and time passing
NextCredit ==
    \/ Tick
    \/ \E c \in CreditCustomers, item \in CreditItems, p \in CreditProducts,
          q \in CreditQuantities, a \in CreditAmounts :
          add_credit(c[1], c[2], "", item, p, q, a)
    \/ \E c \in 1..Len(credits) : mark_credit_paid(c)
    \/ \E p \in 1..Len(products), price \in {"2", "3.00"} :
          manage_products(p, products[p].name, price, "1", "0",
                          str(products[p].stock_quantity), TRUE)

SpecCredit == Init /\ [][NextCredit]_vars

(***************************************************************************)
(* Properties.                                                              *)
(***************************************************************************)
\* the integer a logged str(v) stands for
AuditInt(text) == CHOOSE n \in 0..99 : ToString(n) = text

\* an order line that asked for more than the stock held when it was placed:
\* the audit entry of the line records the stock before and after
Oversold(i) ==
    /\ i \in 1..Len(order_items)
    /\ i \in 1..Len(audit)
    /\ audit[i].object_id = order_items[i].product
    /\ order_items[i].quantity > AuditInt(audit[i].old_value)
    /\ audit[i].new_value = "0"

\* C1: every product's stock_quantity is >= 0 in every state reachable by
\* order placements and return processings.
C1_StockNonNegative ==
    \A p \in 1..Len(products) : products[p].stock_quantity >= 0

\* an oversold line was clamped to 0 and a return has been processed since
C1_Witness ==
    /\ \E i \in 1..Len(order_items) : Oversold(i)
    /\ Len(order_returns) > 0

\* the stock_change entries a step appended to the audit log for product p
NewStockEntries(p) ==
    {k \in (Len(audit) + 1)..Len(audit') :
        /\ audit'[k].action = "stock_change"
        /\ audit'[k].model = "Product"
        /\ audit'[k].field = "stock_quantity"
        /\ audit'[k].object_id = p}

C2_Placed ==
    Len(orders') = Len(orders) + 1 =>
        \A p \in 1..Len(products) :
            IF p \in DOMAIN cart
            THEN LET s == products[p].stock_quantity
                     q == cart[p]
                 IN /\ products'[p].stock_quantity = Max(s - q, 0)
                    /\ Cardinality(NewStockEntries(p)) = 1
                    /\ \A k \in NewStockEntries(p) :
                          /\ audit'[k].old_value = str(s)
                          /\ audit'[k].new_value = str(Max(s - q, 0))
            ELSE /\ products'[p].stock_quantity = products[p].stock_quantity
                 /\ NewStockEntries(p) = {}

C2_NeverRejected ==
    (DOMAIN cart # {} /\ Len(orders) < MaxOrders) =>
        ENABLED (/\ checkout("Asha", "98450", "MG Road", "cash", "4", "", "")
                 /\ Len(orders') = Len(orders) + 1)

\* C2: placing an order for quantity q of a product with stock s leaves the
\* stock at max(s - q, 0), is never rejected for insufficient stock, and
\* appends exactly one stock_change audit entry for the product, with old
\* value s and new value max(s - q, 0).
C2_OrderPlacement == [](C2_NeverRejected) /\ [][C2_Placed]_vars

\* an order has just been placed with a line that oversold its product
C2_Witness ==
    /\ "Order placed successfully!" \in messages
    /\ \E i \in 1..Len(order_items) :
          /\ Oversold(i)
          /\ order_items[i].order = Len(orders)
    /\ Len(order_returns) = 0

\* the quantity a return form asks back for a line, 0 if none
Requested(qty, i) == IF IsIntText(qty[i]) THEN IntTable[qty[i]] ELSE 0

\* the lines of a return form that name product p with a quantity > 0
Named(qty, p) ==
    {i \in DOMAIN qty : order_items[i].product = p /\ Requested(qty, i) > 0}

C3_Returned ==
    Len(order_returns') = Len(order_returns) + 1 =>
    \A o \in {order_returns'[Len(order_returns')].order} :
    \A m \in {order_returns'[Len(order_returns')].refund_method} :
    \A qty \in ReturnForms(o) :
        return_order(o, m, qty) =>
            \A p \in 1..Len(products) :
                IF Named(qty, p) = {}
                THEN products'[p].stock_quantity = products[p].stock_quantity
                ELSE \A i \in Named(qty, p) :
                        products'[p].stock_quantity =
                            products[p].stock_quantity
                                + Min(Requested(qty, i), order_items[i].quantity)

\* C3: a return that requests quantity r > 0 for an order item of ordered
\* quantity n increases the item's product stock by exactly min(r, n),
\* whatever the current stock, and leaves every product not named unchanged.
C3_ReturnRestoresStock == [][C3_Returned]_vars

\* a request above the ordered quantity was clamped to it (a line of 2 asked
\* back as 3), on a product whose stock was 0 when the return came in
C3_Witness ==
    \E r \in 1..Len(return_items) :
        /\ return_items[r].quantity = 2
        /\ \E i \in 1..Len(order_items) :
              /\ Oversold(i)
              /\ order_items[i].product = return_items[r].product
              /\ order_items[i].order
                     = order_returns[return_items[r].order_return].order
        /\ products[return_items[r].product].stock_quantity = 2

\* C4: once return processing has set an order's status to 'returned', no
\* later operation changes that order's status.
C4_ReturnedAbsorbing ==
    [][\A o \in 1..Len(orders) :
          orders[o].status = "returned" => orders'[o].status = "returned"]_vars

C5_Marked ==
    \A o \in 1..Len(orders) :
        mark_order_completed(o) =>
            /\ orders'[o].status = "completed"
            /\ orders[o].status = "completed" => UNCHANGED <<db, cart>>
            /\ \A other \in 1..Len(orders) :
                  other # o => orders'[other] = orders[other]
            /\ UNCHANGED <<products, customers, order_items, payments,
                           order_returns, return_items, credits, audit, cart>>

\* C5: mark_completed moves a pending order to 'completed'; applied to an
\* order that is already completed it changes nothing, so applying it twice
\* gives the same state as applying it once.
C5_MarkCompletedIdempotent == [][C5_Marked]_vars

\* mark_completed has been applied to an order that was already completed
C5_Witness ==
    /\ messages = {"Order is already completed."}
    /\ \E o \in 1..Len(orders) : orders[o].status = "completed"

C6_Paid ==
    \A c \in 1..Len(credits) :
        mark_credit_paid(c) =>
            /\ credits'[c].is_paid
            /\ IF ~credits[c].is_paid
               THEN /\ credits'[c].date_paid = now
                    /\ audit' = Append(audit,
                           [action |-> "credit_paid", model |-> "CreditEntry",
                            object_id |-> c, field |-> "is_paid",
                            old_value |-> "False", new_value |-> "True"])
               ELSE /\ credits'[c].date_paid = credits[c].date_paid
                    /\ audit' = audit

\* C6: marking a credit entry paid is idempotent: the first call sets
\* is_paid, stamps date_paid and appends one credit_paid audit entry; a
\* second call leaves is_paid true and date_paid unchanged and appends no
\* audit entry.
C6_MarkPaidIdempotent == [][C6_Paid]_vars

\* a second call came in after the clock had moved on: the entry keeps the
\* date of the first call and the log keeps its single credit_paid entry
C6_Witness ==
    /\ messages = {"This entry is already marked as paid."}
    /\ \E c \in 1..Len(credits) :
          /\ credits[c].is_paid
          /\ credits[c].date_paid < now
          /\ Cardinality({k \in 1..Len(audit) :
                 audit[k].action = "credit_paid" /\ audit[k].object_id = c}) = 1

\* the entry add_credit has just stored, against the form that was posted.
\* verbatim: the stored amount must be the supplied text itself; otherwise an
\* unparsable text counts as 0
C7_Stored(verbatim) ==
    Len(credits') = Len(credits) + 1 =>
    \A c \in CreditCustomers, item \in CreditItems, p \in CreditProducts,
       q \in CreditQuantities, a \in CreditAmounts :
        add_credit(c[1], c[2], "", item, p, q, a) =>
            LET entry == credits'[Len(credits')]
                linked == p \in 1..Len(products)
                nonpositive == ~IsFloatText(a) \/ IntTable[a] <= 0
            IN IF nonpositive /\ linked
               THEN entry.amount = products[p].price * IntTable[q]
               ELSE IF IsFloatText(a)
               THEN entry.amount = IntTable[a]
               ELSE ~verbatim /\ entry.amount = 0

\* C7 as stated: add_credit stores product.price * quantity when the
\* supplied amount is <= 0 or unparsable and a product is linked, and the
\* supplied amount verbatim in every other case.
C7_AmountVerbatim == [][C7_Stored(TRUE)]_vars

\* C7 as amended: ... and in every other case the supplied amount, an
\* unparsable amount counting as 0.
C7_AmountDerived == [][C7_Stored(FALSE)]_vars

\* an entry of quantity 3 linked to a product, stored at 3 times its price
C7_Witness ==
    \E c \in 1..Len(credits) :
        /\ credits[c].product # None
        /\ credits[c].quantity = 3
        /\ credits[c].amount = 3 * products[credits[c].product].price
        /\ credits[c].amount > 5

C8_Purchased ==
    \A p \in 1..Len(products), c \in PurchaseCosts :
        (IntTable[c] > 0
             /\ wholesaler_dashboard(0, "Metro", p, "", "2", c, "4")) =>
            /\ Len(purchases') = Len(purchases) + 1
            /\ Len(purchase_items') = Len(purchase_items) + 1
            /\ purchase_items'[Len(purchase_items')].purchase = Len(purchases')
            /\ purchase_items'[Len(purchase_items')].product = p
            /\ purchase_items'[Len(purchase_items')].quantity = 2
            /\ products'[p].stock_quantity = products[p].stock_quantity + 2
            /\ products'[p].cost_price = IntTable[c]
            /\ products'[p].price = 4
            /\ \A other \in 1..Len(products) :
                  other # p => products'[other] = products[other]

\* C8: recording a purchase of quantity n at unit cost c and selling price p
\* (both > 0) for a product with prior stock s creates exactly one Purchase
\* and one PurchaseItem and leaves the product with stock s + n,
\* cost_price = c and price = p, overwritten.
C8_PurchaseOverwrites == [][C8_Purchased]_vars

\* a purchase at cost 2 and price 4 has been recorded for a product that
\* cost 1 before
C8_Witness ==
    /\ messages = {"Purchase recorded and stock updated."}
    /\ Len(purchases) = 1 /\ Len(purchase_items) = 1
    /\ products[purchase_items[1].product].cost_price = 2
    /\ products[purchase_items[1].product].price = 4
    /\ products[purchase_items[1].product].stock_quantity >= 2

C9_Kept ==
    /\ \A i \in 1..Len(order_items) : order_items'[i] = order_items[i]
    /\ \A o \in 1..Len(orders) :
          /\ orders'[o].customer_name = orders[o].customer_name
          /\ orders'[o].customer_phone = orders[o].customer_phone
          /\ orders'[o].customer_address = orders[o].customer_address
          /\ total_amount(o)' = total_amount(o)

\* C9: once an order is placed, its items keep the unit_price,
\* discount_amount and quantity captured at placement and the order keeps
\* its customer fields, whatever price edits, purchases, returns and
\* completions follow; the order's total never changes.
C9_SnapshotFidelity == [][C9_Kept]_vars

\* the catalog price of an ordered product has moved away from the line's
\* snapshot, and the order has been returned since
C9_Witness ==
    \E i \in 1..Len(order_items) :
        /\ order_items[i].unit_price # products[order_items[i].product].price
        /\ order_items[i].discount_amount
               # products[order_items[i].product].discount_price
        /\ orders[order_items[i].order].status = "returned"

\* C10: sales_stats(start, end) reports as revenue the line subtotals
\* (unit_price - discount_amount) * quantity of the items of completed or
\* returned orders created in [start, end), minus unit_price * quantity of
\* the return items whose return was created in [start, end).
C10_RevenueIsSubtotals ==
    \A start \in 0..MaxTime, end \in 1..(MaxTime + 1) :
        start < end =>
            sales_stats(start, end).revenue =
                SumSeq([i \in 1..Len(order_items) |->
                    IF /\ orders[order_items[i].order].status
                              \in {"completed", "returned"}
                       /\ orders[order_items[i].order].created_at >= start
                       /\ orders[order_items[i].order].created_at < end
                    THEN (order_items[i].unit_price
                              - order_items[i].discount_amount)
                             * order_items[i].quantity
                    ELSE 0])
                - SumSeq([r \in 1..Len(return_items) |->
                    IF /\ order_returns[return_items[r].order_return].created_at
                              >= start
                       /\ order_returns[return_items[r].order_return].created_at
                              < end
                    THEN return_items[r].unit_price * return_items[r].quantity
                    ELSE 0])

\* the lines of a return form that ask a quantity > 0 back
Asked(qty) == {i \in DOMAIN qty : Requested(qty, i) > 0}

\* the return items of one OrderReturn, rows by id
ReturnItemsOf(r) ==
    SortedSeq({k \in 1..Len(return_items) : return_items[k].order_return = r})

C13_Processed ==
    Len(order_returns') = Len(order_returns) + 1 =>
    \A o \in {order_returns'[Len(order_returns')].order} :
    \A m \in {order_returns'[Len(order_returns')].refund_method} :
    \A qty \in ReturnForms(o) :
        return_order(o, m, qty) =>
            /\ orders'[o].status = "returned"
            /\ Asked(qty) = {} => Len(return_items') = Len(return_items)
            /\ order_returns'[Len(order_returns')].order = o

\* C13: return processing sets the order's status to 'returned' every time
\* it runs to completion, also for a partial return and when no line asks a
\* quantity > 0 back (an OrderReturn with no items is still created).
C13_AlwaysReturned == [][C13_Processed]_vars

\* an order of 2 units was sent back with one OrderReturn that has
\* no item and another that takes 1 unit only, and reads 'returned'
C13_Witness ==
    \E r1, r2 \in 1..Len(order_returns) :
        /\ order_returns[r1].order = order_returns[r2].order
        /\ orders[order_returns[r1].order].status = "returned"
        /\ ReturnItemsOf(r1) = << >>
        /\ Len(ReturnItemsOf(r2)) = 1
        /\ return_items[ReturnItemsOf(r2)[1]].quantity = 1
        /\ \E i \in 1..Len(order_items) :
              /\ order_items[i].order = order_returns[r1].order
              /\ order_items[i].quantity = 2

C14_Created ==
    Len(order_returns') = Len(order_returns) + 1 =>
    \A o \in {order_returns'[Len(order_returns')].order} :
    \A m \in {order_returns'[Len(order_returns')].refund_method} :
    \A qty \in ReturnForms(o) :
        return_order(o, m, qty) =>
            /\ Len(return_items') = Len(return_items) + Cardinality(Asked(qty))
            /\ \A k \in (Len(return_items) + 1)..Len(return_items') :
                  /\ return_items'[k].order_return = Len(order_returns')
                  /\ \E i \in Asked(qty) :
                        /\ order_items[i].product = return_items'[k].product
                        /\ return_items'[k].quantity >= 1
                        /\ return_items'[k].quantity <= order_items[i].quantity
                        /\ return_items'[k].quantity
                               = Min(Requested(qty, i), order_items[i].quantity)
                        /\ return_items'[k].unit_price
                               = order_items[i].unit_price

\* C14: within one return call every OrderReturnItem created has a quantity
\* between 1 and the quantity of the order item it returns (a request above
\* it is clamped, a request <= 0 creates no item) and carries the order
\* item's snapshot unit_price.
C14_ReturnItemBounds == [][C14_Created]_vars

\* a return of a two-line order that took one line back clamped to its
\* ordered quantity and skipped the other line
C14_Witness ==
    \E r \in 1..Len(order_returns) :
        /\ Len(items_of(order_returns[r].order)) = 2
        /\ Len(ReturnItemsOf(r)) = 1
        /\ \E i \in 1..Len(order_items) :
              /\ order_items[i].order = order_returns[r].order
              /\ order_items[i].product
                     = return_items[ReturnItemsOf(r)[1]].product
              /\ order_items[i].quantity
                     = return_items[ReturnItemsOf(r)[1]].quantity
              /\ order_items[i].unit_price
                     = return_items[ReturnItemsOf(r)[1]].unit_price

\* the units of an order line taken back so far, over every return of its order
ReturnedSoFar(i) ==
    SumSeq([k \in 1..Len(return_items) |->
        IF /\ order_returns[return_items[k].order_return].order
                  = order_items[i].order
           /\ return_items[k].product = order_items[i].product
        THEN return_items[k].quantity ELSE 0])

\* an order that has a return on record is not turned away
C15_NotPrevented ==
    \A o \in 1..Len(orders) :
        (/\ \E r \in 1..Len(order_returns) : order_returns[r].order = o
         /\ Len(order_returns) < MaxReturns)
        => \A m \in RefundMethods : \A qty \in ReturnForms(o) :
               ENABLED return_order(o, m, qty)

\* a further return of an order adds the full clamped quantity of each line
\* to the stock, whatever was taken back before
C15_Again ==
    Len(order_returns') = Len(order_returns) + 1 =>
    \A o \in {order_returns'[Len(order_returns')].order} :
    (\E r \in 1..Len(order_returns) : order_returns[r].order = o) =>
    \A m \in {order_returns'[Len(order_returns')].refund_method} :
    \A qty \in ReturnForms(o) :
        return_order(o, m, qty) =>
            \A i \in Asked(qty) :
                /\ products'[order_items[i].product].stock_quantity
                       = products[order_items[i].product].stock_quantity
                             + Min(Requested(qty, i), order_items[i].quantity)
                /\ ReturnedSoFar(i)'
                       = ReturnedSoFar(i)
                             + Min(Requested(qty, i), order_items[i].quantity)

\* C15: double-returning is not prevented: a second return of the same order
\* is accepted, the cumulative returned quantity of a line can exceed the
\* ordered quantity, and the stock is increased by both returns.
C15_DoubleReturn == [](C15_NotPrevented) /\ [][C15_Again]_vars

\* a line was taken back for more units than were ordered, and its product
\* holds more stock than the shop started with
C15_Witness ==
    \E i \in 1..Len(order_items) :
        /\ ReturnedSoFar(i) > order_items[i].quantity
        /\ products[order_items[i].product].stock_quantity
               > InitialProducts[order_items[i].product].stock_quantity

\* the refund total of a return form: unit_price * returned quantity
RefundTotal(qty) ==
    SumSeq([k \in 1..Len(SortedSeq(Asked(qty))) |->
        order_items[SortedSeq(Asked(qty))[k]].unit_price
            * Min(Requested(qty, SortedSeq(Asked(qty))[k]),
                  order_items[SortedSeq(Asked(qty))[k]].quantity)])

C16_Refunded ==
    Len(order_returns') = Len(order_returns) + 1 =>
    \A o \in {order_returns'[Len(order_returns')].order} :
    \A m \in {order_returns'[Len(order_returns')].refund_method} :
    \A qty \in ReturnForms(o) :
        return_order(o, m, qty) =>
            IF m # "" /\ RefundTotal(qty) > 0
            THEN payments' = Append(payments,
                     [order |-> o, method |-> m,
                      amount |-> -RefundTotal(qty), reference |-> "REFUND"])
            ELSE payments' = payments

\* C16: a return call creates exactly one OrderPayment with negative amount
\* equal to the refund total and reference "REFUND" when a refund method is
\* given and the refund total is > 0, creates none otherwise, and never
\* modifies or deletes an existing payment.
C16_RefundPayment == [][C16_Refunded]_vars

\* one return was refunded in cash for 6 (two units at 3), another return
\* that took units back named no refund method and booked no payment
C16_Witness ==
    /\ \E k \in 1..Len(payments) :
          /\ payments[k].reference = "REFUND"
          /\ payments[k].amount = -6
    /\ \E r \in 1..Len(order_returns) :
          /\ order_returns[r].refund_method = ""
          /\ ReturnItemsOf(r) # << >>
    /\ Cardinality({k \in 1..Len(payments) :
                       payments[k].reference = "REFUND"}) = 1

\* C11: recording a purchase for a product (which overwrites its cost_price
\* and price) does not change the profit that sales_stats reports for the
\* orders placed before the purchase.
C11_MarginKept ==
    [][Len(purchases') = Len(purchases) + 1 =>
          sales_stats(0, MaxTime + 1).profit'
              = sales_stats(0, MaxTime + 1).profit]_vars

\* C19: a purchase form with unit_cost <= 0 or selling_price <= 0 is rejected
\* and fully aborted: no Purchase, PurchaseItem, Product or Wholesaler row is
\* created and no product's stock, cost_price or price changes.
C19_RejectedPurchaseAborts ==
    [][\A p \in 1..Len(products), c \in PurchaseCosts :
          (IntTable[c] <= 0 /\ wholesaler_dashboard(0, "Metro", p, "", "2", c, "4"))
              => UNCHANGED <<products, wholesalers, purchases,
                             purchase_items>>]_vars

\* C20: add_credit for which no item name can be determined (none given, no
\* existing product linked) is rejected and fully aborted: no CreditEntry is
\* created and no Customer is created or changed.
C20_RejectedCreditAborts ==
    [][\A c \in CreditCustomers, q \in CreditQuantities, a \in CreditAmounts :
          add_credit(c[1], c[2], "", "", 0, q, a)
              => UNCHANGED <<credits, customers>>]_vars

\* C12: checkout fails, creating no Order and changing no stock, whenever the
\* cart has no valid lines: it is empty, or every line names a product that
\* does not exist in the catalog.
C12_NoValidLinesFails ==
    [][cart_products = << >> =>
          /\ orders' = orders
          /\ order_items' = order_items
          /\ products' = products]_vars

\* the order total checkout computes over the valid cart lines
CartValue ==
    SumSeq([k \in 1..Len(cart_products) |->
        (products[cart_products[k]].price
             - products[cart_products[k]].discount_price)
            * cart[cart_products[k]]])

\* what a payment amount field counts for: blank or unparsable counts as 0
Paid(amount) == IF IsFloatText(amount) THEN IntTable[amount] ELSE 0

\* the customers on record under a name
Known(name) == {i \in 1..Len(customers) : customers[i].name = name}

\* with the customer fields filled in and a valid cart line the order is
\* accepted under every payment entry
C17_Accepted ==
    (/\ cart_products # << >>
     /\ Len(orders) < MaxOrders
     /\ Cardinality(Known("Asha")) <= 1)
    => \A phone \in Phones \ {""}, address \in Addresses \ {""} :
       \A a1 \in PayAmounts, m2 \in PayMethods, a2 \in {"", "2"} :
           ENABLED (/\ checkout("Asha", phone, address, "cash", a1, m2, a2)
                    /\ Len(orders') = Len(orders) + 1)

C17_Placed ==
    Len(orders') = Len(orders) + 1 =>
    \A phone \in Phones, address \in Addresses :
    \A a1 \in PayAmounts, m2 \in PayMethods, a2 \in {"", "2"} :
        checkout("Asha", phone, address, "cash", a1, m2, a2) =>
            /\ Len(order_items') = Len(order_items) + Len(cart_products)
            /\ \A k \in 1..Len(cart_products) :
                  /\ order_items'[Len(order_items) + k].order = Len(orders')
                  /\ order_items'[Len(order_items) + k].product
                         = cart_products[k]
            /\ "Order placed successfully!" \in messages'
            /\ ("Payment total does not match order total." \in messages')
                   <=> (Paid(a1) + Paid(a2) # CartValue)

C18_Upserted ==
    Len(orders') = Len(orders) + 1 =>
    \A phone \in Phones, address \in Addresses :
    \A a1 \in PayAmounts, m2 \in PayMethods, a2 \in {"", "2"} :
        checkout("Asha", phone, address, "cash", a1, m2, a2) =>
            IF Known("Asha") = {}
            THEN customers' = Append(customers,
                     [name |-> "Asha", phone |-> phone, address |-> address])
            ELSE /\ Len(customers') = Len(customers)
                 /\ \A i \in 1..Len(customers) :
                       IF i \in Known("Asha")
                       THEN /\ customers'[i].name = "Asha"
                            /\ customers'[i].phone =
                                   IF phone # "" /\ customers[i].phone # phone
                                   THEN phone ELSE customers[i].phone
                            /\ customers'[i].address =
                                   IF address # ""
                                      /\ customers[i].address # address
                                   THEN address ELSE customers[i].address
                       ELSE customers'[i] = customers[i]

\* a request that places no order and books no credit leaves every customer
\* as stored
C18_Kept ==
    (Len(orders') = Len(orders) /\ Len(credits') = Len(credits))
        => customers' = customers

\* C18: checkout upserts the Customer matched by exact name: created with the
\* submitted phone and address if no customer has the name; if one exists its
\* phone (resp. address) is overwritten only when the submitted value is
\* non-empty and differs from the stored one, never with a blank.
C18_CustomerUpsert == [][C18_Upserted /\ C18_Kept]_vars

\* the customer the credit ledger had opened (phone blank or 98450, no
\* address) now carries the phone and address of the order placed since
C18_Witness ==
    /\ Len(customers) = 1
    /\ Len(credits) >= 1
    /\ Len(orders) = 1
    /\ customers[1] = [name |-> "Asha", phone |-> "70000",
                       address |-> "MG Road"]

\* C21: an unparsable quantity never fails the operation: it falls back to
\* the default 1 and the operation proceeds (here: add to cart and set cart
\* quantity; add_credit parses its quantity the way update_cart does).
C21_ParseFallsBack ==
    [][\A p \in CartIds :
          /\ add_to_cart(p, "POST", "x") =>
                 cart' = CartSet(cart, p,
                             (IF p \in DOMAIN cart THEN cart[p] ELSE 0) + 1)
          /\ update_cart(p, "x") =>
                 (cart' = CartSet(cart, p, 1) /\ "ValueError" \notin messages')
      ]_vars

\* the quantity a cart holds of a product, 0 if it has no line for it
Held(c, p) == IF p \in DOMAIN c THEN c[p] ELSE 0

\* every line but the one of product p is as it was
OthersKept(p) ==
    /\ DOMAIN cart' \ {p} = DOMAIN cart \ {p}
    /\ \A o \in DOMAIN cart \ {p} : cart'[o] = cart[o]

C22_Cart ==
    \A p \in CartIds :
        /\ add_to_cart(p, "GET", "") =>
               (Held(cart', p) = Held(cart, p) + 1 /\ OthersKept(p))
        /\ add_to_cart(p, "POST", "2") =>
               (Held(cart', p) = Held(cart, p) + 2 /\ OthersKept(p))
        /\ update_cart(p, "1") =>
               (Held(cart', p) = 1 /\ OthersKept(p))
        /\ update_cart(p, "0") =>
               (p \notin DOMAIN cart' /\ OthersKept(p))
        /\ remove_from_cart(p) =>
               (p \notin DOMAIN cart' /\ OthersKept(p))

\* C22: add(p, q) with q >= 1 leaves quantity n + q on a cart that held n of
\* p (q if p was absent); set(p, q) replaces the quantity by q when q > 0
\* and removes the line when q <= 0; remove(p) deletes the line; each leaves
\* the lines of every other product unchanged.
C22_CartOperations == [][C22_Cart]_vars

\* a quantity was set on a cart that holds a line of another product too
C22_Witness ==
    /\ DOMAIN cart = {2, 3}
    /\ cart[2] = 1
    /\ cart[3] = 1
    /\ messages = {"Cart updated"}

\* C23: a code resolves in priority order: the product whose barcode equals
\* it; else a product whose QR payload equals it; else, if it is numeric,
\* the product with that id; else not-found.  A barcode match wins over
\* another product's numeric id.  An empty code is not-found.
C23_CodeResolution ==
    \A code \in ScanCodes :
        LET c == strip(code)
            by_barcode == {p \in 1..Len(products) : products[p].barcode = c}
            by_qr == {p \in 1..Len(products) : products[p].qr_payload = c}
            found == _find_product_by_code(code)
        IN IF c = "" THEN found = None
           ELSE IF by_barcode # {} THEN found \in by_barcode
           ELSE IF by_qr # {} THEN found \in by_qr
           ELSE IF IsIntText(c) /\ IntTable[c] \in 1..Len(products)
           THEN found = IntTable[c]
           ELSE found = None

\* the stock_change entries of a product, oldest first
StockLog(p) ==
    SortedSeq({k \in 1..Len(audit) :
                  /\ audit[k].action = "stock_change"
                  /\ audit[k].object_id = p})

\* C25: every change of a product's stock_quantity has a stock_change audit
\* entry: for each product every entry's old value equals the previous
\* entry's new value, and the last entry's new value equals the current
\* stock (the starting stock if there is no entry).
C25_AuditTracesStock ==
    \A p \in 1..Len(products) :
        LET log == StockLog(p)
        IN /\ \A k \in 1..(Len(log) - 1) :
                  audit[log[k + 1]].old_value = audit[log[k]].new_value
           /\ products[p].stock_quantity =
                  IF log = << >> THEN InitialProducts[p].stock_quantity
                  ELSE AuditInt(audit[log[Len(log)]].new_value)

C28_Checkout ==
    /\ Len(orders') = Len(orders) + 1 => cart' = << >>
    /\ \A phone \in {"", "98450"} :
          (/\ checkout("Asha", phone, "MG Road", "cash", "4", "", "")
           /\ Len(orders') = Len(orders))
              => cart' = cart

\* C28: after any sequence of add, scan-add, set and remove operations every
\* line of the cart has quantity >= 1; a successful checkout leaves the cart
\* empty and one rejected for missing customer fields leaves it unchanged.
C28_CartLines ==
    /\ [](\A k \in DOMAIN cart : cart[k] >= 1)
    /\ [][C28_Checkout]_vars

\* a scan filled the cart again after an order had emptied it
C28_Witness ==
    /\ Len(orders) = 1
    /\ order_items # << >>
    /\ DOMAIN cart # {}
    /\ messages = {"Added to cart"}

\* sum of amount over the unpaid entries of one customer
RECURSIVE Outstanding(_, _)
Outstanding(entries, customer) ==
    IF entries = << >> THEN 0
    ELSE (IF Head(entries).customer = customer /\ ~Head(entries).is_paid
          THEN Head(entries).amount ELSE 0)
         + Outstanding(Tail(entries), customer)

C26_Dated ==
    \A c \in 1..Len(credits) :
        (credits[c].date_paid # NoDate) <=> credits[c].is_paid

C26_Balance ==
    /\ Len(credits') >= Len(credits)
    /\ \A c \in 1..Len(credits) : credits[c].is_paid => credits'[c].is_paid
    /\ \A customer \in 1..Len(customers') :
           Outstanding(credits', customer) # Outstanding(credits, customer) =>
               \/ /\ Len(credits') = Len(credits) + 1
                  /\ SubSeq(credits', 1, Len(credits)) = credits
                  /\ messages' = {"Udhari entry added successfully."}
                  /\ credits'[Len(credits')].customer = customer
                  /\ ~credits'[Len(credits')].is_paid
                  /\ Outstanding(credits', customer)
                         = Outstanding(credits, customer)
                               + credits'[Len(credits')].amount
               \/ \E c \in 1..Len(credits) :
                      /\ mark_credit_paid(c)
                      /\ credits[c].customer = customer
                      /\ ~credits[c].is_paid
                      /\ credits' = [credits EXCEPT
                                        ![c] = [@ EXCEPT !.is_paid = TRUE,
                                                         !.date_paid = now]]
                      /\ Outstanding(credits', customer)
                             = Outstanding(credits, customer)
                                   - credits[c].amount

Placed(i) ==
    /\ i \in 1..Len(audit)
    /\ audit[i].action = "stock_change"
    /\ audit[i].object_id = order_items[i].product
    /\ products[order_items[i].product].stock_quantity
           = AuditInt(audit[i].new_value)
    /\ \A r \in 1..Len(order_returns) :
           order_returns[r].order # order_items[i].order

C29_Restored ==
    Len(order_returns') = Len(order_returns) + 1 =>
    \A o \in {order_returns'[Len(order_returns')].order} :
    \A m \in {order_returns'[Len(order_returns')].refund_method} :
    \A qty \in ReturnForms(o) :
        return_order(o, m, qty) =>
            \A i \in DOMAIN qty :
                (Placed(i) /\ Requested(qty, i) >= order_items[i].quantity) =>
                    products'[order_items[i].product].stock_quantity
                        = IF AuditInt(audit[i].old_value)
                                 >= order_items[i].quantity
                          THEN AuditInt(audit[i].old_value)
                          ELSE order_items[i].quantity

\* C29: placing an order for q units of a product that holds s and then
\* returning the full q leaves the stock at s when s >= q, and at q (more
\* than s) when s < q, the placement having clamped the stock to 0.
C29_StockRoundTrip == [][C29_Restored]_vars

\* 2 units of a product that held 1 were ordered and returned in full:
\* the stock reads 2
C29_Witness ==
    /\ Len(order_returns) = 1
    /\ \E i \in 1..Len(order_items) :
          /\ i \in 1..Len(audit)
          /\ audit[i].object_id = order_items[i].product
          /\ order_items[i].order = order_returns[1].order
          /\ order_items[i].quantity = 2
          /\ AuditInt(audit[i].old_value) = 1
          /\ AuditInt(audit[i].new_value) = 0
          /\ \E k \in 1..Len(return_items) :
                /\ return_items[k].product = order_items[i].product
                /\ return_items[k].quantity = 2
          /\ products[order_items[i].product].stock_quantity = 2

\* the payments of an order, refunds included, summed
PaymentSum(rows, o) ==
    SumSeq([k \in 1..Len(rows) |->
               IF rows[k].order = o THEN rows[k].amount ELSE 0])

\* what the discounts of an order's lines took off its total
DiscountTotal(o) ==
    SumSeq([k \in 1..Len(items_of(o)) |->
               order_items[items_of(o)[k]].discount_amount
                   * order_items[items_of(o)[k]].quantity])

C30_Refund ==
    Len(order_returns') = Len(order_returns) + 1 =>
    \A o \in {order_returns'[Len(order_returns')].order} :
    \A m \in {order_returns'[Len(order_returns')].refund_method} \ {""} :
    \A qty \in ReturnForms(o) :
        (/\ return_order(o, m, qty)
         /\ \A i \in DOMAIN qty :
                Requested(qty, i) >= order_items[i].quantity) =>
            /\ Len(payments') = Len(payments) + 1
            /\ payments'[Len(payments')].order = o
            /\ payments'[Len(payments')].reference = "REFUND"
            /\ -payments'[Len(payments')].amount
                   = SumSeq([k \in 1..Len(items_of(o)) |->
                         order_items[items_of(o)[k]].unit_price
                             * order_items[items_of(o)[k]].quantity])
            /\ -payments'[Len(payments')].amount
                   = total_amount(o) + DiscountTotal(o)
            /\ (PaymentSum(payments, o) = total_amount(o)
                    /\ DiscountTotal(o) > 0)
                   => PaymentSum(payments', o) < 0

\* C30: a return refunds the pre-discount unit_price: returning every line of
\* an order in full with a refund method records a refund of the sum of
\* unit_price * q, which exceeds the order's total (the sum of the line
\* subtotals (unit_price - d) * q) by the sum of d * q; an order with a
\* discounted line that was paid exactly at its total then has a negative sum
\* of payments.
C30_RefundIgnoresDiscount == [][C30_Refund]_vars

\* 2 discounted units paid at their total of 4 and returned in full:
\* refund 6, payments sum to -2
C30_Witness ==
    /\ Len(order_returns) = 1
    /\ Len(items_of(order_returns[1].order)) = 1
    /\ \E i \in 1..Len(order_items) :
          /\ order_items[i].order = order_returns[1].order
          /\ order_items[i].quantity = 2
          /\ order_items[i].unit_price = 3
          /\ order_items[i].discount_amount = 1
    /\ total_amount(order_returns[1].order) = 4
    /\ Len(payments) = 2
    /\ payments[1].amount = 4
    /\ payments[2].amount = -6
    /\ payments[2].reference = "REFUND"
    /\ PaymentSum(payments, order_returns[1].order) = -2

\* the lines of the completed orders created in month m
Counted(m) ==
    {i \in 1..Len(order_items) :
        /\ orders[order_items[i].order].status = "completed"
        /\ orders[order_items[i].order].created_at = m}

\* unit_price * quantity summed over a set of order lines, in hundredths
Taxable(lines) ==
    SumSeq([k \in 1..Len(SortedSeq(lines)) |->
               order_items[SortedSeq(lines)[k]].unit_price
                   * order_items[SortedSeq(lines)[k]].quantity * 100])

Labelled(m, name, rate) ==
    {i \in Counted(m) :
        /\ products[order_items[i].product].name = name
        /\ products[order_items[i].product].tax_rate_percent = rate}

Racers(p) == {w \in Workers : p \in DOMAIN inflight[w].cart}

\* the units of p the requests ordered, all together
Ordered(p) ==
    SumSeq([k \in 1..Len(SortedSeq(Racers(p))) |->
               inflight[SortedSeq(Racers(p))[k]].cart[p]])

\* the stock of p the request of worker w read
ReadStock(w, p) == inflight[w].products[p].stock_quantity

\* C24: two (or more) order placements served at once lose an update: when
\* each of them read the stock s of a product before any of them saved it and
\* they order q1, q2, ... units with q1 + q2 + ... <= s, the stock they leave
\* is s - q of one of them (the last to save), not s minus the sum, while
\* the order line and the audit entry of each of them are recorded.
C24_LostUpdate ==
    \A p \in 1..Len(products) :
        (/\ \A w \in Workers : inflight[w].pc = "done"
         /\ Cardinality(Racers(p)) >= 2
         /\ \A v, w \in Racers(p) : ReadStock(v, p) = ReadStock(w, p)
         /\ \A w \in Racers(p) : Ordered(p) <= ReadStock(w, p)) =>
            /\ \E w \in Racers(p) :
                   products[p].stock_quantity
                       = ReadStock(w, p) - inflight[w].cart[p]
            /\ \A w \in Racers(p) :
                   products[p].stock_quantity > ReadStock(w, p) - Ordered(p)
            /\ Len(orders) = Cardinality(Workers)
            /\ \A w \in Racers(p) :
                   /\ \E i \in 1..Len(order_items) :
                          /\ order_items[i].order = inflight[w].order
                          /\ order_items[i].product = p
                          /\ order_items[i].quantity = inflight[w].cart[p]
                   /\ \E a \in 1..Len(audit) :
                          /\ audit[a].action = "stock_change"
                          /\ audit[a].object_id = p
                          /\ audit[a].old_value = str(ReadStock(w, p))
                          /\ audit[a].new_value
                                 = str(ReadStock(w, p) - inflight[w].cart[p])
            /\ Cardinality({a \in 1..Len(audit) : audit[a].object_id = p})
                   = Cardinality(Racers(p))

\* both requests read a stock of 4 and ordered 1 and 2 units: the stock ends
\* at 3, with two orders and two audit entries (4 -> 3, 4 -> 2)
C24_Witness ==
    /\ \A w \in Workers : inflight[w].pc = "done"
    /\ Racers(1) = {1, 2}
    /\ inflight[1].cart[1] = 1 /\ inflight[2].cart[1] = 2
    /\ ReadStock(1, 1) = 4 /\ ReadStock(2, 1) = 4
    /\ products[1].stock_quantity = 3
    /\ Len(orders) = 2
    /\ Len(audit) = 2
    /\ {audit[1].new_value, audit[2].new_value} = {"3", "2"}

====
